---- MODULE Spec2Model ----
(***************************************************************************)
(* AbqParse: the Abaqus input-deck lexer (abaqus_lexer.py) and the grammar *)
(* driven tree builder (abaqus_parser.py), both run by PLY.                *)
(*                                                                         *)
(* A text buffer is a sequence of one-character strings.  Positions are    *)
(* 0-based as in the source (lexpos), so character i is lexdata[i+1].      *)
(* Python's None is modelled by the empty sequence wherever the source     *)
(* value, when present, is a non-empty string or list (token text,         *)
(* param_list, data_lines), so the encoding loses nothing.                 *)
(*                                                                         *)
(* The buffers explored contain no quote and no backslash, so the          *)
(* character and string literal rules (abaqus_lexer.py 219, 250-277),      *)
(* whose regexes all need a quote, can never match and are left out of     *)
(* the rule tables.                                                        *)
(***************************************************************************)
EXTENDS Integers, Sequences, FiniteSets, TLC

VARIABLES
    cfg,       \* construction: [client, lex_optimize]
    lexer,     \* the ply Lexer object: lexdata, lexpos, lexstate, lexstatestack, lineno
    tok,       \* the token last returned by token() (the parser's lookahead)
    toks,      \* tokens returned by token() during the current call, in order
    errors,    \* diagnostics handed to error_func during the current call
    symstack,  \* the LR parser's symbol stack with semantic values
    pc,        \* "idle", "lex", "yacc", "returned", "raised"
    result,    \* outcome of the current call
    calls      \* number of input()/parse() calls made on this instance

vars == <<cfg, lexer, tok, toks, errors, symstack, pc, result, calls>>

----------------------------------------------------------------------------
(* Character classes of the regexes, abaqus_lexer.py 116-152.              *)

Lower ==
    {"a","b","c","d","e","f","g","h","i","j","k","l","m","n","o","p","q","r","s","t","u","v","w","x","y","z"}

Upper ==
    {"A","B","C","D","E","F","G","H","I","J","K","L","M","N","O","P","Q","R","S","T","U","V","W","X","Y","Z"}

Letter == Lower \cup Upper

Digit == {"0","1","2","3","4","5","6","7","8","9"}

OctDigit == {"0","1","2","3","4","5","6","7"}

HexDigit == Digit \cup {"a","b","c","d","e","f","A","B","C","D","E","F"}

IdStart == Letter \cup {"_"}

IdChar == Letter \cup Digit \cup {"_"}

NL == "\n"

\* The character at 0-based position i, "" past the end of the data.
At(d, i) == IF i >= 0 /\ i < Len(d) THEN d[i + 1] ELSE ""

\* d[i:j] in Python terms.
Slice(d, i, j) == IF j <= i THEN <<>> ELSE SubSeq(d, i + 1, j)

\* Length of the longest run of characters of class S starting at i.
RECURSIVE Run(_, _, _)
Run(d, i, S) == IF At(d, i) \in S THEN 1 + Run(d, i + 1, S) ELSE 0

\* Length of the longest run of characters other than a line break (regex '.*').
RECURSIVE RunDot(_, _)
RunDot(d, i) == IF i < Len(d) /\ At(d, i) # NL THEN 1 + RunDot(d, i + 1) ELSE 0

\* Number of line breaks in a string (str.count("\n")).
RECURSIVE CountNL(_)
CountNL(s) == IF s = <<>> THEN 0 ELSE (IF Head(s) = NL THEN 1 ELSE 0) + CountNL(Tail(s))

----------------------------------------------------------------------------
(* The regexes.  Each operator gives the length Python's re matches at     *)
(* position i (first alternative that succeeds, greedy repeats), 0 when    *)
(* the regex does not match there.  No rule matches the empty string.      *)

\* identifier = [a-zA-Z_][0-9a-zA-Z_]*
identifier(d, i) == IF At(d, i) \in IdStart THEN 1 + Run(d, i + 1, IdChar) ELSE 0

\* abaqus_keyword = \*[a-zA-Z][0-9a-zA-Z_]*
abaqus_keyword(d, i) ==
    IF At(d, i) = "*" /\ At(d, i + 1) \in Letter THEN 2 + Run(d, i + 2, IdChar) ELSE 0

\* integer_suffix_opt = (u?ll|U?LL|([uU][lL])|([lL][uU])|[uU]|[lL])?
integer_suffix_opt(d, i) ==
    LET a == At(d, i)  b == At(d, i + 1)  c == At(d, i + 2)
    IN  CASE a = "u" /\ b = "l" /\ c = "l" -> 3
          [] a = "l" /\ b = "l" -> 2
          [] a = "U" /\ b = "L" /\ c = "L" -> 3
          [] a = "L" /\ b = "L" -> 2
          [] a \in {"u","U"} /\ b \in {"l","L"} -> 2
          [] a \in {"l","L"} /\ b \in {"u","U"} -> 2
          [] a \in {"u","U"} -> 1
          [] a \in {"l","L"} -> 1
          [] OTHER -> 0

\* decimal_constant = (0 suffix)|([1-9][0-9]* suffix)
decimal_constant(d, i) ==
    IF At(d, i) = "0" THEN 1 + integer_suffix_opt(d, i + 1)
    ELSE IF At(d, i) \in Digit
         THEN LET n == 1 + Run(d, i + 1, Digit) IN n + integer_suffix_opt(d, i + n)
         ELSE 0

\* octal_constant = 0[0-7]* suffix
octal_constant(d, i) ==
    IF At(d, i) = "0"
    THEN LET n == 1 + Run(d, i + 1, OctDigit) IN n + integer_suffix_opt(d, i + n)
    ELSE 0

\* hex_constant = 0[xX][0-9a-fA-F]+ suffix
hex_constant(d, i) ==
    IF At(d, i) = "0" /\ At(d, i + 1) \in {"x","X"} /\ At(d, i + 2) \in HexDigit
    THEN LET n == 2 + Run(d, i + 2, HexDigit) IN n + integer_suffix_opt(d, i + n)
    ELSE 0

\* bad_octal_constant = 0[0-7]*[89]
bad_octal_constant(d, i) ==
    IF At(d, i) = "0"
    THEN LET n == 1 + Run(d, i + 1, OctDigit)
         IN  IF At(d, i + n) \in {"8","9"} THEN n + 1 ELSE 0
    ELSE 0

\* exponent_part = ([eE][-+]?[0-9]+)
exponent_part(d, i) ==
    IF At(d, i) \in {"e","E"}
    THEN LET s == IF At(d, i + 1) \in {"-","+"} THEN 1 ELSE 0
             n == Run(d, i + 1 + s, Digit)
         IN  IF n > 0 THEN 1 + s + n ELSE 0
    ELSE 0

\* fractional_constant = ([0-9]*\.[0-9]+)|([0-9]+\.)
fractional_constant(d, i) ==
    LET n == Run(d, i, Digit)
        m == Run(d, i + n + 1, Digit)
    IN  IF At(d, i + n) # "." THEN 0
        ELSE IF m > 0 THEN n + 1 + m
        ELSE IF n > 0 THEN n + 1
        ELSE 0

\* floating_constant = ((((fractional)exponent?)|([0-9]+exponent))[FfLl]?)
floating_constant(d, i) ==
    LET f == fractional_constant(d, i)
        n == Run(d, i, Digit)
        body == IF f > 0 THEN f + exponent_part(d, i + f)
                ELSE IF n > 0 /\ exponent_part(d, i + n) > 0
                     THEN n + exponent_part(d, i + n)
                     ELSE 0
    IN  IF body = 0 THEN 0
        ELSE body + (IF At(d, i + body) \in {"F","f","L","l"} THEN 1 ELSE 0)

\* t_COMMENT: [ \t]*\*\*.*\n
comment_re(d, i) ==
    LET b == Run(d, i, {" ", "\t"})
        n == RunDot(d, i + b + 2)
    IN  IF At(d, i + b) = "*" /\ At(d, i + b + 1) = "*" /\ At(d, i + b + 2 + n) = NL
        THEN b + 2 + n + 1
        ELSE 0

\* \n+  (t_datalinestate_LASTTOKENONLINE and t_NEWLINEALONE)
newlines_re(d, i) == Run(d, i, {NL})

\* The regex of each rule.
RuleLen(rule, d, i) ==
    CASE rule = "t_KEYWORD" -> abaqus_keyword(d, i)
      [] rule = "t_keywordstate_PARAM" -> identifier(d, i)
      [] rule = "t_keywordstate_CONTINUE" -> IF At(d, i) = "," /\ At(d, i + 1) = NL THEN 2 ELSE 0
      [] rule = "t_keywordstate_NEWLINE" -> IF At(d, i) = NL THEN 1 ELSE 0
      [] rule = "t_datalinestate_LASTTOKENONLINE" -> newlines_re(d, i)
      [] rule = "t_COMMENT" -> comment_re(d, i)
      [] rule = "t_NEWLINEALONE" -> newlines_re(d, i)
      [] rule = "t_FLOAT_CONST" -> floating_constant(d, i)
      [] rule = "t_INT_CONST_HEX" -> hex_constant(d, i)
      [] rule = "t_BAD_CONST_OCT" -> bad_octal_constant(d, i)
      [] rule = "t_INT_CONST_OCT" -> octal_constant(d, i)
      [] rule = "t_INT_CONST_DEC" -> decimal_constant(d, i)
      [] rule = "t_ID" -> identifier(d, i)
      [] rule = "t_PERIOD" -> IF At(d, i) = "." THEN 1 ELSE 0
      [] rule = "t_EQUALS" -> IF At(d, i) = "=" THEN 1 ELSE 0
      [] rule = "t_COMMA" -> IF At(d, i) = "," THEN 1 ELSE 0
      [] OTHER -> 0

----------------------------------------------------------------------------
(* The rule tables PLY builds from the lexer class.                        *)

\* tokens, abaqus_lexer.py 83-108.
tokens ==
    {"KEYWORD", "ID", "PARAM", "INT_CONST_DEC", "FLOAT_CONST", "CHAR_CONST", "WCHAR_CONST",
     "STRING_LITERAL", "WSTRING_LITERAL", "EQUALS", "COMMA", "PERIOD", "LASTTOKENONLINE"}

\* Rules of the INITIAL state in the order of the master regex: the function
\* rules in the order they are written, then the string rules.
InitialRules ==
    <<"t_KEYWORD", "t_COMMENT", "t_NEWLINEALONE", "t_FLOAT_CONST", "t_INT_CONST_HEX",
      "t_BAD_CONST_OCT", "t_INT_CONST_OCT", "t_INT_CONST_DEC", "t_ID",
      "t_PERIOD", "t_EQUALS", "t_COMMA">>

\* StateRules with the continuation rule lost from keywordstate.
StateRulesNoContinue(state) ==
    CASE state = "keywordstate" -> <<"t_keywordstate_PARAM", "t_keywordstate_NEWLINE">> \o InitialRules
      [] state = "datalinestate" -> <<"t_datalinestate_LASTTOKENONLINE">> \o InitialRules
      [] OTHER -> InitialRules

\* states, abaqus_lexer.py 157-161: both states are inclusive, so their own
\* rules come first and the INITIAL rules follow.
StateRules(state) ==
    CASE state = "keywordstate" ->
            <<"t_keywordstate_PARAM", "t_keywordstate_CONTINUE", "t_keywordstate_NEWLINE">>
                \o InitialRules
      [] state = "datalinestate" -> <<"t_datalinestate_LASTTOKENONLINE">> \o InitialRules
      [] OTHER -> InitialRules

\* t_ignore / t_keywordstate_ignore (datalinestate inherits t_ignore).
lexignore(state) == {" ", "\t"}

\* The token type PLY attaches to a rule's match (the rule name without
\* the t_ and state prefix).
TokName(rule) ==
    CASE rule = "t_KEYWORD" -> "KEYWORD"
      [] rule = "t_keywordstate_PARAM" -> "PARAM"
      [] rule = "t_keywordstate_CONTINUE" -> "CONTINUE"
      [] rule = "t_keywordstate_NEWLINE" -> "NEWLINE"
      [] rule = "t_datalinestate_LASTTOKENONLINE" -> "LASTTOKENONLINE"
      [] rule = "t_COMMENT" -> "COMMENT"
      [] rule = "t_NEWLINEALONE" -> "NEWLINEALONE"
      [] rule = "t_FLOAT_CONST" -> "FLOAT_CONST"
      [] rule = "t_INT_CONST_HEX" -> "INT_CONST_HEX"
      [] rule = "t_BAD_CONST_OCT" -> "BAD_CONST_OCT"
      [] rule = "t_INT_CONST_OCT" -> "INT_CONST_OCT"
      [] rule = "t_INT_CONST_DEC" -> "INT_CONST_DEC"
      [] rule = "t_ID" -> "ID"
      [] rule = "t_PERIOD" -> "PERIOD"
      [] rule = "t_EQUALS" -> "EQUALS"
      [] rule = "t_COMMA" -> "COMMA"
      [] OTHER -> "error"

\* Index of the first rule of the list, from k on, that matches at i (0: none).
RECURSIVE FirstMatch(_, _, _, _)
FirstMatch(rules, k, d, i) ==
    IF k > Len(rules) THEN 0
    ELSE IF RuleLen(rules[k], d, i) > 0 THEN k
    ELSE FirstMatch(rules, k + 1, d, i)

\* What one iteration of the loop of Lexer.token() does at the current
\* position: "eof", "ignore", the rule whose regex is selected, or "error".
Selected(lx) ==
    LET rules == StateRules(lx.lexstate)
        k == FirstMatch(rules, 1, lx.lexdata, lx.lexpos)
    IN  IF lx.lexpos >= Len(lx.lexdata) THEN "eof"
        ELSE IF At(lx.lexdata, lx.lexpos) \in lexignore(lx.lexstate) THEN "ignore"
        ELSE IF k = 0 THEN "error"
        ELSE rules[k]

----------------------------------------------------------------------------
(* Tokens and the outcome of a rule function.                              *)

NoTok == [type |-> "None", value |-> <<>>, lineno |-> 0, lexpos |-> 0]

EndTok == [type |-> "$end", value |-> <<>>, lineno |-> 0, lexpos |-> 0]

NoErr == [kind |-> "", arg |-> <<>>, line |-> 0, column |-> 0]

\* lx: the lexer after the call; ret: the token returned (NoTok for None);
\* diag: the diagnostics handed to error_func; exc: the exception raised.
Out(lx, ret) == [lx |-> lx, ret |-> ret, diag |-> <<>>, exc |-> ""]

\* The token PLY builds for a match of rule at the current position.
MkTok(rule, lx) ==
    [type |-> TokName(rule),
     value |-> Slice(lx.lexdata, lx.lexpos, lx.lexpos + RuleLen(rule, lx.lexdata, lx.lexpos)),
     lineno |-> lx.lineno,
     lexpos |-> lx.lexpos]

\* The lexer as the rule function sees it: lexpos already at the match end.
Enter(rule, lx) ==
    [lx EXCEPT !.lexpos = lx.lexpos + RuleLen(rule, lx.lexdata, lx.lexpos)]

push_state(lx, state) ==
    [lx EXCEPT !.lexstatestack = Append(lx.lexstatestack, lx.lexstate), !.lexstate = state]

\* Only called with a non-empty stack (keywordstate is entered by push_state).
pop_state(lx) ==
    [lx EXCEPT !.lexstate = lx.lexstatestack[Len(lx.lexstatestack)],
               !.lexstatestack = SubSeq(lx.lexstatestack, 1, Len(lx.lexstatestack) - 1)]

RECURSIVE FindNL(_, _)
FindNL(d, i) == IF i > 0 /\ At(d, i) # NL THEN FindNL(d, i - 1) ELSE i

_find_tok_column(d, lexpos) == (lexpos - FindNL(d, lexpos)) + 1

_make_tok_location(d, t) == <<t.lineno, _find_tok_column(d, t.lexpos)>>

\* error_func: the parser's sink (_lex_error_func) raises ParseError through
\* _parse_error; a stand-alone lexer is given a sink that records and returns.
SinkRaises(c) == c.client = "parser"

_error(lx, msg, arg, t, c) ==
    LET location == _make_tok_location(lx.lexdata, t)
        d == [kind |-> msg, arg |-> arg, line |-> location[1], column |-> location[2]]
    IN  IF SinkRaises(c)
        THEN [lx |-> lx, ret |-> NoTok, diag |-> <<d>>, exc |-> "ParseError"]
        ELSE [lx |-> [lx EXCEPT !.lexpos = lx.lexpos + 1], ret |-> NoTok,
              diag |-> <<d>>, exc |-> ""]

----------------------------------------------------------------------------
(* The rule functions.  lx is the lexer with lexpos at the end of the      *)
(* match, t the token built for the match.                                 *)

\* t_KEYWORD that leaves the marker in the token's value.
t_KEYWORD_keep_marker(lx, t) == Out(push_state(lx, "keywordstate"), t)

t_KEYWORD(lx, t) == Out(push_state(lx, "keywordstate"), [t EXCEPT !.value = Tail(t.value)])

t_keywordstate_PARAM(lx, t) == Out(lx, t)

t_keywordstate_CONTINUE(lx, t) == Out(lx, [t EXCEPT !.value = <<",">>, !.type = "COMMA"])

t_keywordstate_NEWLINE(lx, t) ==
    LET l2 == push_state(pop_state(lx), "datalinestate")
    IN  Out([l2 EXCEPT !.lineno = lx.lineno + CountNL(t.value)], NoTok)

t_keywordstate_error(lx, t, c) == _error(lx, "invalid keyword", <<>>, t, c)

t_datalinestate_LASTTOKENONLINE(lx, t) ==
    Out([lx EXCEPT !.lineno = lx.lineno + CountNL(t.value)], t)

t_COMMENT(lx, t) == Out(lx, NoTok)

t_NEWLINEALONE(lx, t) == Out([lx EXCEPT !.lineno = lx.lineno + CountNL(t.value)], NoTok)

t_FLOAT_CONST(lx, t) == Out(lx, t)

t_INT_CONST_HEX(lx, t) == Out(lx, t)

t_BAD_CONST_OCT(lx, t, c) == _error(lx, "Invalid octal constant", <<>>, t, c)

t_INT_CONST_OCT(lx, t) == Out(lx, t)

t_INT_CONST_DEC(lx, t) == Out(lx, t)

t_ID(lx, t) == Out(lx, [t EXCEPT !.type = "ID"])

\* t_EQUALS, t_COMMA, t_PERIOD: string rules, the match is the token.
t_string(lx, t) == Out(lx, t)

t_error(lx, t, c) == _error(lx, "Illegal character", <<t.value[1]>>, t, c)

\* The token PLY hands to the error function: the rest of the input.
ErrTok(lx) ==
    [type |-> "error", value |-> Slice(lx.lexdata, lx.lexpos, Len(lx.lexdata)),
     lineno |-> lx.lineno, lexpos |-> lx.lexpos]

\* A function rule that returns a token whose type is not in tokens makes
\* token() raise LexError unless the lexer was built with optimize.
TypeCheck(o, c) ==
    IF o.exc = "" /\ o.ret # NoTok /\ ~c.lex_optimize /\ o.ret.type \notin tokens
    THEN [o EXCEPT !.exc = "LexError", !.ret = NoTok]
    ELSE o

\* One iteration of the loop of Lexer.token() for the selected rule.
Handle(sel, lx, c) ==
    LET e == Enter(sel, lx)
        t == MkTok(sel, lx)
    IN  CASE sel = "ignore" -> Out([lx EXCEPT !.lexpos = lx.lexpos + 1], NoTok)
          [] sel = "eof" -> Out([lx EXCEPT !.lexpos = lx.lexpos + 1], NoTok)
          [] sel = "error" ->
                IF lx.lexstate = "keywordstate"
                THEN t_keywordstate_error(lx, ErrTok(lx), c)
                ELSE t_error(lx, ErrTok(lx), c)
          [] sel = "t_KEYWORD" -> TypeCheck(t_KEYWORD(e, t), c)
          [] sel = "t_keywordstate_PARAM" -> TypeCheck(t_keywordstate_PARAM(e, t), c)
          [] sel = "t_keywordstate_CONTINUE" -> TypeCheck(t_keywordstate_CONTINUE(e, t), c)
          [] sel = "t_keywordstate_NEWLINE" -> t_keywordstate_NEWLINE(e, t)
          [] sel = "t_datalinestate_LASTTOKENONLINE" ->
                TypeCheck(t_datalinestate_LASTTOKENONLINE(e, t), c)
          [] sel = "t_COMMENT" -> t_COMMENT(e, t)
          [] sel = "t_NEWLINEALONE" -> t_NEWLINEALONE(e, t)
          [] sel = "t_FLOAT_CONST" -> TypeCheck(t_FLOAT_CONST(e, t), c)
          [] sel = "t_INT_CONST_HEX" -> TypeCheck(t_INT_CONST_HEX(e, t), c)
          [] sel = "t_BAD_CONST_OCT" -> t_BAD_CONST_OCT(e, t, c)
          [] sel = "t_INT_CONST_OCT" -> TypeCheck(t_INT_CONST_OCT(e, t), c)
          [] sel = "t_INT_CONST_DEC" -> TypeCheck(t_INT_CONST_DEC(e, t), c)
          [] sel = "t_ID" -> TypeCheck(t_ID(e, t), c)
          [] OTHER -> t_string(e, t)

----------------------------------------------------------------------------
(* The tree builder: the node classes and the grammar productions,         *)
(* abaqus_parser.py 20-29 and 143-247.                                     *)

\* Parameter(name, value = None)
Parameter(name, value) == [name |-> name, value |-> value]

\* Keyword(keyword, params = None, data = None)
Keyword(keyword, params, data) == [keyword |-> keyword, params |-> params, data |-> data]

None == <<>>

Sym(s, v) == [sym |-> s, val |-> v]

\* The grammar symbol k places below the top of the stack (1: the top).
Top(st, k) == IF Len(st) >= k THEN st[Len(st) - k + 1].sym ELSE ""

\* p[k] of a production with n right-hand symbols on top of the stack.
P(st, n, k) == st[Len(st) - n + k].val

\* Replace the n right-hand symbols on top of the stack by the left-hand one.
Goto(st, n, lhs, val) == Append(SubSeq(st, 1, Len(st) - n), Sym(lhs, val))

list_append(lst, item) == Append(lst, item)

\* p_keyword_list that keeps only the latest keyword.
p_keyword_list_drop(st) == Goto(st, 2, "keyword_list", <<P(st, 2, 2)>>)

\* keyword_list : keyword_list keyword
p_keyword_list(st) == Goto(st, 2, "keyword_list", P(st, 2, 1) \o <<P(st, 2, 2)>>)

\* keyword_list : keyword
p_keyword(st) == Goto(st, 1, "keyword_list", <<P(st, 1, 1)>>)

\* keyword : KEYWORD | KEYWORD data_lines | KEYWORD COMMA param_list
\*         | KEYWORD COMMA param_list data_lines
p_single_keyword(st, n) ==
    CASE n = 1 -> Goto(st, 1, "keyword", Keyword(P(st, 1, 1), None, None))
      [] n = 2 -> Goto(st, 2, "keyword", Keyword(P(st, 2, 1), None, P(st, 2, 2)))
      [] n = 3 -> Goto(st, 3, "keyword", Keyword(P(st, 3, 1), P(st, 3, 3), None))
      [] OTHER -> Goto(st, 4, "keyword", Keyword(P(st, 4, 1), P(st, 4, 3), P(st, 4, 4)))

\* p_param_list that lets a parameter replace the earlier ones of its name.
p_param_list_dedup(st) ==
    Goto(st, 3, "param_list",
         SelectSeq(P(st, 3, 1), LAMBDA q : q.name # P(st, 3, 3).name) \o <<P(st, 3, 3)>>)

\* param_list : param_list COMMA param
p_param_list(st) == Goto(st, 3, "param_list", P(st, 3, 1) \o <<P(st, 3, 3)>>)

\* param_list : param
p_param(st) == Goto(st, 1, "param_list", <<P(st, 1, 1)>>)

\* param : PARAM | PARAM EQUALS PARAM | PARAM EQUALS FLOAT_CONST | PARAM EQUALS INT_CONST_DEC
p_single_param(st, n) ==
    IF n = 1 THEN Goto(st, 1, "param", Parameter(P(st, 1, 1), None))
    ELSE Goto(st, 3, "param", Parameter(P(st, 3, 1), P(st, 3, 3)))

\* data_lines : data_lines data_line
p_data_lines_list(st) == Goto(st, 2, "data_lines", list_append(P(st, 2, 1), P(st, 2, 2)))

\* data_lines : data_line
p_data_lines(st) == Goto(st, 1, "data_lines", <<P(st, 1, 1)>>)

\* data_line : data_list LASTTOKENONLINE
p_data_line(st) == Goto(st, 2, "data_line", P(st, 2, 1))

\* data_list : data_list COMMA data | data_list data
p_data_list(st, n) ==
    IF n = 2 THEN Goto(st, 2, "data_list", P(st, 2, 1) \o <<P(st, 2, 2)>>)
    ELSE Goto(st, 3, "data_list", P(st, 3, 1) \o <<P(st, 3, 3)>>)

\* data_list : data
p_data(st) == Goto(st, 1, "data_list", <<P(st, 1, 1)>>)

\* data : ID | INT_CONST_DEC | FLOAT_CONST
p_single_data(st) == Goto(st, 1, "data", P(st, 1, 1))

DataTok == {"ID", "INT_CONST_DEC", "FLOAT_CONST"}

ValueTok == {"PARAM", "FLOAT_CONST", "INT_CONST_DEC"}

Act(a, prod, n) == [act |-> a, prod |-> prod, n |-> n]

\* The LALR(1) table yacc generates for the grammar with start symbol
\* keyword_list, read off the symbols on top of the stack: what the parser
\* does with lookahead la.  The grammar has no conflicts.
LRAction(st, la) ==
    LET t1 == Top(st, 1)
        t2 == Top(st, 2)
        shift == Act("shift", "", 0)
        error == Act("error", "", 0)
        endkw == la \in {"KEYWORD", "$end"}
    IN  CASE t1 = "" -> IF la = "KEYWORD" THEN shift ELSE error
          [] t1 = "keyword_list" ->
                IF la = "KEYWORD" THEN shift
                ELSE IF la = "$end" THEN Act("accept", "", 0) ELSE error
          [] t1 = "keyword" ->
                IF ~endkw THEN error
                ELSE IF t2 = "keyword_list" THEN Act("reduce", "p_keyword_list", 2)
                ELSE Act("reduce", "p_keyword", 1)
          [] t1 = "KEYWORD" ->
                IF la = "COMMA" \/ la \in DataTok THEN shift
                ELSE IF endkw THEN Act("reduce", "p_single_keyword", 1) ELSE error
          [] t1 = "COMMA" /\ t2 \in {"KEYWORD", "param_list"} ->
                IF la = "PARAM" THEN shift ELSE error
          [] t1 = "COMMA" /\ t2 = "data_list" -> IF la \in DataTok THEN shift ELSE error
          [] t1 = "PARAM" /\ t2 = "COMMA" ->
                IF la = "EQUALS" THEN shift
                ELSE IF la = "COMMA" \/ la \in DataTok \/ endkw
                     THEN Act("reduce", "p_single_param", 1) ELSE error
          [] t1 = "EQUALS" -> IF la \in ValueTok THEN shift ELSE error
          [] t1 \in ValueTok /\ t2 = "EQUALS" ->
                IF la = "COMMA" \/ la \in DataTok \/ endkw
                THEN Act("reduce", "p_single_param", 3) ELSE error
          [] t1 = "param" ->
                IF ~(la = "COMMA" \/ la \in DataTok \/ endkw) THEN error
                ELSE IF Top(st, 3) = "param_list" THEN Act("reduce", "p_param_list", 3)
                ELSE Act("reduce", "p_param", 1)
          [] t1 = "param_list" ->
                IF la = "COMMA" \/ la \in DataTok THEN shift
                ELSE IF endkw THEN Act("reduce", "p_single_keyword", 3) ELSE error
          [] t1 \in DataTok /\ t2 # "EQUALS" ->
                IF la = "COMMA" \/ la = "LASTTOKENONLINE" \/ la \in DataTok
                THEN Act("reduce", "p_single_data", 1) ELSE error
          [] t1 = "data" ->
                IF ~(la = "COMMA" \/ la = "LASTTOKENONLINE" \/ la \in DataTok) THEN error
                ELSE IF t2 = "data_list" THEN Act("reduce", "p_data_list", 2)
                ELSE IF t2 = "COMMA" THEN Act("reduce", "p_data_list", 3)
                ELSE Act("reduce", "p_data", 1)
          [] t1 = "data_list" ->
                IF la = "COMMA" \/ la = "LASTTOKENONLINE" \/ la \in DataTok THEN shift ELSE error
          [] t1 = "LASTTOKENONLINE" ->
                IF la \in DataTok \/ endkw THEN Act("reduce", "p_data_line", 2) ELSE error
          [] t1 = "data_line" ->
                IF ~(la \in DataTok \/ endkw) THEN error
                ELSE IF t2 = "data_lines" THEN Act("reduce", "p_data_lines_list", 2)
                ELSE Act("reduce", "p_data_lines", 1)
          [] t1 = "data_lines" ->
                IF la \in DataTok THEN shift
                ELSE IF ~endkw THEN error
                ELSE IF t2 = "KEYWORD" THEN Act("reduce", "p_single_keyword", 2)
                ELSE Act("reduce", "p_single_keyword", 4)
          [] OTHER -> error

\* The stack after the reduction a.
Reduce(st, a) ==
    CASE a.prod = "p_keyword_list" -> p_keyword_list(st)
      [] a.prod = "p_keyword" -> p_keyword(st)
      [] a.prod = "p_single_keyword" -> p_single_keyword(st, a.n)
      [] a.prod = "p_param_list" -> p_param_list(st)
      [] a.prod = "p_param" -> p_param(st)
      [] a.prod = "p_single_param" -> p_single_param(st, a.n)
      [] a.prod = "p_data_lines_list" -> p_data_lines_list(st)
      [] a.prod = "p_data_lines" -> p_data_lines(st)
      [] a.prod = "p_data_line" -> p_data_line(st)
      [] a.prod = "p_data_list" -> p_data_list(st, a.n)
      [] a.prod = "p_data" -> p_data(st)
      [] OTHER -> p_single_data(st)

\* The outcome of a call: status "ok" with the Document (or, for a
\* stand-alone lexer, nothing), or the exception that ended it.
Ok(doc) == [status |-> "ok", doc |-> doc, err |-> NoErr]

Raised(status, e) == [status |-> status, doc |-> <<>>, err |-> e]

NoResult == [status |-> "", doc |-> <<>>, err |-> NoErr]

\* p_error that lets the parse of an exhausted token stream return an empty list.
p_error_empty_ok(p) ==
    IF p.type # "$end"
    THEN Raised("ParseError", [kind |-> "before", arg |-> p.value, line |-> p.lineno, column |-> 0])
    ELSE Ok(<<>>)

\* p_error: _parse_error raises ParseError with the message and coordinate.
p_error(p) ==
    IF p.type # "$end"
    THEN Raised("ParseError", [kind |-> "before", arg |-> p.value, line |-> p.lineno, column |-> 0])
    ELSE Raised("ParseError", [kind |-> "At end of input", arg |-> <<>>, line |-> 0, column |-> 0])

----------------------------------------------------------------------------
(* Whole calls as functions of the lexer they start from: Lexer.token()    *)
(* up to the token it returns, and yacc's parse loop around it.            *)

\* Lexer.token(): iterate until a rule returns a token, the input ends
\* ($end for the parser) or an exception leaves the loop.
RECURSIVE token(_, _, _)
token(lx, c, diag) ==
    LET sel == Selected(lx)
        o == Handle(sel, lx, c)
        d == diag \o o.diag
    IN  IF sel = "eof" THEN [lx |-> o.lx, ret |-> EndTok, diag |-> d, exc |-> ""]
        ELSE IF o.exc # "" \/ o.ret # NoTok THEN [o EXCEPT !.diag = d]
        ELSE token(o.lx, c, d)

\* What the parser does with one lookahead: reduce as long as the table
\* says so, then shift, accept or call p_error.
RECURSIVE yacc(_, _)
yacc(st, la) ==
    LET a == LRAction(st, la.type)
    IN  CASE a.act = "reduce" -> yacc(Reduce(st, a), la)
          [] a.act = "shift" -> [st |-> Append(st, Sym(la.type, la.value)), res |-> NoResult]
          [] a.act = "accept" -> [st |-> st, res |-> Ok(P(st, 1, 1))]
          [] OTHER -> [st |-> st, res |-> p_error(la)]

LexExc(o) == Raised(o.exc, IF o.diag = <<>> THEN [NoErr EXCEPT !.kind = "unknown token type"]
                           ELSE o.diag[Len(o.diag)])

\* cparser.parse(text, lexer=clex) after input(): the outcome, the tokens
\* read, the diagnostics and the lexer the call leaves behind.
RECURSIVE parse_loop(_, _, _, _, _)
parse_loop(lx, c, st, ts, es) ==
    LET o == token(lx, c, <<>>)
        y == yacc(st, o.ret)
        ts2 == IF o.ret.type = "$end" THEN ts ELSE Append(ts, o.ret)
    IN  IF o.exc # ""
        THEN [result |-> LexExc(o), toks |-> ts, errors |-> es \o o.diag, lexer |-> o.lx]
        ELSE IF y.res # NoResult
        THEN [result |-> y.res, toks |-> ts2, errors |-> es \o o.diag, lexer |-> o.lx]
        ELSE parse_loop(o.lx, c, y.st, ts2, es \o o.diag)

\* while 1: tok = clex.token(); if not tok: break   (abaqus_lexer.py 321-323)
RECURSIVE token_loop(_, _, _, _)
token_loop(lx, c, ts, es) ==
    LET o == token(lx, c, <<>>)
    IN  IF o.exc # ""
        THEN [result |-> LexExc(o), toks |-> ts, errors |-> es \o o.diag, lexer |-> o.lx]
        ELSE IF o.ret.type = "$end"
        THEN [result |-> Ok(<<>>), toks |-> ts, errors |-> es \o o.diag, lexer |-> o.lx]
        ELSE token_loop(o.lx, c, Append(ts, o.ret), es \o o.diag)

\* Lexer.input(text)
input(lx, text) == [lx EXCEPT !.lexdata = text, !.lexpos = 0]

\* reset_lineno()
reset_lineno(lx) == [lx EXCEPT !.lineno = 1]

\* The lexer ply.lex.lex() builds.
NewLexer ==
    [lexdata |-> <<>>, lexpos |-> 0, lexstate |-> "INITIAL", lexstatestack |-> <<>>, lineno |-> 1]

\* AbaqusParser.parse(text) on a parser whose lexer is lx.
parse(lx, c, text) == parse_loop(input(reset_lineno(lx), text), c, <<>>, <<>>, <<>>)

\* parse(text) on a freshly constructed parser.
FreshParse(c, text) == parse(NewLexer, c, text)

\* The token stream of a freshly built stand-alone lexer.
FreshTokens(c, text) == token_loop(input(NewLexer, text), c, <<>>, <<>>)

----------------------------------------------------------------------------
(* The buffers explored.                                                   *)

\* The buffers of tests/test_snippets.py (test_1, test_2, test_3) ...
test_1_buf ==
    <<" ","\n"," "," "," "," "," "," "," "," ","*","e","l","s","e","t",",","e","l","s","e","t",
      "=","f","o","o","\n"," "," "," "," "," "," "," "," ","1",",","\n"," "," "," "," "," "," ",
      " "," ","2",",","\n"," "," "," "," "," "," "," "," ","3",",","\n"," "," "," "," "," "," ",
      " "," ">>

test_2_buf ==
    <<" ","\n"," "," "," "," "," "," "," "," ","*","s","o","l","i","d"," ","s","e","c","t","i",
      "o","n",",","e","l","s","e","t","=","b","o","x",",","m","a","t","e","r","i","a","l","=",
      "T","9","5","\n"," "," "," "," "," "," "," "," ","1",".","0","\n"," "," "," "," "," "," ",
      " "," ","*","s","o","l","i","d"," ","s","e","c","t","i","o","n",",","e","l","s","e","t",
      "=","p","i","n",",","m","a","t","e","r","i","a","l","=","T","9","5","\n"," "," "," "," ",
      " "," "," "," ","1",".","0","\n"," "," "," "," "," "," "," "," ">>

test_3_buf ==
    <<" ","\n"," "," "," "," "," "," "," "," ","*","i","n","c","l","u","d","e",",","i","n","p",
      "u","t","=","m","a","t","e","r","i","a","l","s",".","i","n","p","\n"," "," "," "," "," ",
      " "," "," ","*","*","*","*","*","*","*","*","*","*","*","*","*","*","*","*","*","*","*",
      "*","*","*","*","*","*","*","*","*","*","*","*","*","*","*","*","\n"," "," "," "," "," ",
      " "," "," ","*","e","n","d","\n"," "," "," "," "," "," "," "," ">>

\* ... and the same scenarios without the indentation of the test source.
ScenarioA ==
    <<"*","e","l","s","e","t",",","e","l","s","e","t","=","f","o","o","\n","1",",","\n","2",",",
      "\n","3",",","\n">>

ScenarioB ==
    <<"*","s","o","l","i","d"," ","s","e","c","t","i","o","n",",","e","l","s","e","t","=","b",
      "o","x",",","m","a","t","e","r","i","a","l","=","T","9","5","\n","1",".","0","\n","*","s",
      "o","l","i","d"," ","s","e","c","t","i","o","n",",","e","l","s","e","t","=","p","i","n",
      ",","m","a","t","e","r","i","a","l","=","T","9","5","\n","1",".","0","\n">>

ScenarioC ==
    <<"*","i","n","c","l","u","d","e",",","i","n","p","u","t","=","m","a","t","e","r","i","a",
      "l","s",".","i","n","p","\n","*","*","*","c","o","m","m","e","n","t","*","*","*","\n","*",
      "e","n","d","\n">>

Scenarios == {test_1_buf, test_2_buf, test_3_buf, ScenarioA, ScenarioB, ScenarioC}

\* Further single buffers: literal forms as data fields and as parameter
\* values, two data lines under one keyword, characters no rule matches,
\* a comment that ends the buffer, a parameter name written twice.
Literals ==
    {<<"*", "a", "\n", "0", "\n">>,
     <<"*", "a", "\n", "1", ",", "2", "\n", "x", " ", "1", ".", "5", "\n">>,
     <<"*", "a", "\n", "-", "1", "\n">>,
     <<"*", "a", ",", "b", "=", "-", "1", "\n">>,
     <<"*", "a", "\n", "0", "7", "\n">>,
     <<"*", "a", "\n", "0", "x", "1", "F", "\n">>,
     <<"*", "a", ",", "b", "=", "0", "\n">>,
     <<"*", "a", ",", "b", "=", "0", "7", "\n">>,
     <<"*", "a", ",", "b", "=", "0", "x", "1", "F", "\n">>,
     <<"*", "a", ",", "b", "=", "1", ".", "5", "\n">>,
     <<"*", "a", "\n", "0", "8", "9", "\n">>,
     <<"*", "a", "\n", "0", "8", "9", ",", "5", "\n">>,
     <<"*", "a", "\n", "0", "8", "9", "9", "\n", "7", "\n">>,
     <<"*", "a", "\n", "0", "8", "\n", "7", "\n">>,
     <<"*", "a", "\n", "1", "\n", "*", "*", "c">>,
     <<"*", "a", ",", "b", "=", "1", ",", "b", "\n", "1", ",", "2", "\n", "3", "\n", "*", "a", "\n">>}

\* Building blocks of the generated buffers: headers, a header that ends in
\* a comma, a line that is a parameter after it, data lines, a comment
\* line, the empty line.
Blocks ==
    {<<"*", "a">>,
     <<"*", "a", ",", "b", "=", "1", ",", "c">>,
     <<"*", "k", ",">>,
     <<"c", "=", "d">>,
     <<"1", ",", "2">>,
     <<"*", "*", "c">>,
     <<>>}

\* The buffers given to a parser or lexer that has been used before.
Again ==
    {<<>>,
     <<"*", "a", "\n">>,
     <<"\n", "*", "a", "\n", "1", "\n">>,
     <<"1", ",", "2", "\n">>,
     <<"*", "k", ",", "\n", "c", "=", "d", "\n", "1", "\n">>}

MaxBlocks == 3

MaxCalls == 2

\* The blocks of a sequence joined by line breaks ('\n'.join(bs)).
RECURSIVE Join(_)
Join(bs) ==
    IF bs = <<>> THEN <<>>
    ELSE IF Len(bs) = 1 THEN bs[1]
    ELSE bs[1] \o <<NL>> \o Join(Tail(bs))

Generated == {Join(bs) : bs \in UNION {[1..n -> Blocks] : n \in 0..MaxBlocks}}

Inputs == Scenarios \cup Literals \cup Generated

\* The buffers a call may be given: any of Inputs on a new instance, one of
\* Again on a used one.
Given == IF calls = 0 THEN Inputs ELSE Again

\* How the lexer is built and used: by AbaqusParser (tests build it with
\* lex_optimize=False, the constructor's default is True), or stand-alone
\* with an error function that records the diagnostic and returns (built
\* without optimize as in abaqus_lexer.py 318, or with it).
Configs ==
    {[client |-> "parser", lex_optimize |-> FALSE],
     [client |-> "parser", lex_optimize |-> TRUE],
     [client |-> "lexer", lex_optimize |-> FALSE],
     [client |-> "lexer", lex_optimize |-> TRUE]}

----------------------------------------------------------------------------
(* The state machine.                                                      *)

Init ==
    /\ cfg \in Configs
    /\ lexer = NewLexer
    /\ tok = NoTok
    /\ toks = <<>>
    /\ errors = <<>>
    /\ symstack = <<>>
    /\ pc = "idle"
    /\ result = NoResult
    /\ calls = 0

\* AbaqusParser.parse(text): reset_lineno(), then yacc's parse() feeds the
\* text to the lexer with input() and starts with an empty stack.
ParseCall(text) ==
    /\ pc = "idle"
    /\ cfg.client = "parser"
    /\ calls < MaxCalls
    /\ lexer' = input(reset_lineno(lexer), text)
    /\ tok' = NoTok
    /\ toks' = <<>>
    /\ errors' = <<>>
    /\ symstack' = <<>>
    /\ result' = NoResult
    /\ pc' = "lex"
    /\ calls' = calls + 1
    /\ UNCHANGED cfg

\* A stand-alone lexer is given a text with input() and then asked for
\* tokens until token() returns None.
InputCall(text) ==
    /\ pc = "idle"
    /\ cfg.client = "lexer"
    /\ calls < MaxCalls
    /\ lexer' = input(lexer, text)
    /\ tok' = NoTok
    /\ toks' = <<>>
    /\ errors' = <<>>
    /\ symstack' = <<>>
    /\ result' = NoResult
    /\ pc' = "lex"
    /\ calls' = calls + 1
    /\ UNCHANGED cfg

\* The effect of one iteration of token() on the state: the lexer moves,
\* diagnostics reach the sink, an exception ends the call, a token goes to
\* the parser (or to the caller of a stand-alone lexer).
Finish(o) ==
    /\ lexer' = o.lx
    /\ errors' = errors \o o.diag
    /\ IF o.exc # ""
       THEN /\ pc' = "raised"
            /\ result' = LexExc(o)
            /\ UNCHANGED <<tok, toks>>
       ELSE IF o.ret = NoTok
       THEN /\ pc' = "lex"
            /\ UNCHANGED <<tok, toks, result>>
       ELSE /\ tok' = o.ret
            /\ toks' = Append(toks, o.ret)
            /\ pc' = IF cfg.client = "parser" THEN "yacc" ELSE "lex"
            /\ UNCHANGED result
    /\ UNCHANGED <<cfg, symstack, calls>>

\* The rule rule is the one selected at the current position, and its
\* function runs.  (The first conjunct on the rule's own regex is implied
\* by the second.)
Scan(rule) ==
    /\ pc = "lex"
    /\ RuleLen(rule, lexer.lexdata, lexer.lexpos) > 0
    /\ Selected(lexer) = rule
    /\ Finish(Handle(rule, lexer, cfg))

\* No rule is selected: sel is "ignore" or "error".
Skip(sel) ==
    /\ pc = "lex"
    /\ lexer.lexpos < Len(lexer.lexdata)
    /\ Selected(lexer) = sel
    /\ Finish(Handle(sel, lexer, cfg))

Ignore == Skip("ignore")

KEYWORD == Scan("t_KEYWORD")

PARAM == Scan("t_keywordstate_PARAM")

CONTINUE == Scan("t_keywordstate_CONTINUE")

NEWLINE == Scan("t_keywordstate_NEWLINE")

LASTTOKENONLINE == Scan("t_datalinestate_LASTTOKENONLINE")

COMMENT == Scan("t_COMMENT")

NEWLINEALONE == Scan("t_NEWLINEALONE")

FLOAT_CONST == Scan("t_FLOAT_CONST")

INT_CONST_HEX == Scan("t_INT_CONST_HEX")

BAD_CONST_OCT == Scan("t_BAD_CONST_OCT")

INT_CONST_OCT == Scan("t_INT_CONST_OCT")

INT_CONST_DEC == Scan("t_INT_CONST_DEC")

ID == Scan("t_ID")

PERIOD == Scan("t_PERIOD")

EQUALS == Scan("t_EQUALS")

COMMA == Scan("t_COMMA")

KeywordError == lexer.lexstate = "keywordstate" /\ Skip("error")

Error == lexer.lexstate # "keywordstate" /\ Skip("error")

\* token() at the end of the data returns None: yacc reads it as $end, the
\* stand-alone loop stops.
Eof ==
    /\ pc = "lex"
    /\ lexer.lexpos >= Len(lexer.lexdata)
    /\ lexer' = Handle("eof", lexer, cfg).lx
    /\ IF cfg.client = "parser"
       THEN tok' = EndTok /\ pc' = "yacc" /\ UNCHANGED result
       ELSE tok' = NoTok /\ pc' = "returned" /\ result' = Ok(<<>>)
    /\ UNCHANGED <<cfg, toks, errors, symstack, calls>>

\* A reduction by the production function prod.
Production(prod) ==
    /\ pc = "yacc"
    /\ LRAction(symstack, tok.type).act = "reduce"
    /\ LRAction(symstack, tok.type).prod = prod
    /\ symstack' = Reduce(symstack, LRAction(symstack, tok.type))
    /\ UNCHANGED <<cfg, lexer, tok, toks, errors, pc, result, calls>>

KeywordList == Production("p_keyword_list")

KeywordFirst == Production("p_keyword")

SingleKeyword == Production("p_single_keyword")

ParamList == Production("p_param_list")

ParamFirst == Production("p_param")

SingleParam == Production("p_single_param")

DataLinesList == Production("p_data_lines_list")

DataLines == Production("p_data_lines")

DataLine == Production("p_data_line")

DataList == Production("p_data_list")

DataFirst == Production("p_data")

SingleData == Production("p_single_data")

Shift ==
    /\ pc = "yacc"
    /\ LRAction(symstack, tok.type).act = "shift"
    /\ symstack' = Append(symstack, Sym(tok.type, tok.value))
    /\ pc' = "lex"
    /\ UNCHANGED <<cfg, lexer, tok, toks, errors, result, calls>>

Accept ==
    /\ pc = "yacc"
    /\ LRAction(symstack, tok.type).act = "accept"
    /\ result' = Ok(P(symstack, 1, 1))
    /\ pc' = "returned"
    /\ UNCHANGED <<cfg, lexer, tok, toks, errors, symstack, calls>>

SyntaxError ==
    /\ pc = "yacc"
    /\ LRAction(symstack, tok.type).act = "error"
    /\ result' = p_error(tok)
    /\ pc' = "raised"
    /\ UNCHANGED <<cfg, lexer, tok, toks, errors, symstack, calls>>

\* The call is over and its outcome is with the caller.  What the lexer
\* keeps is its state, its state stack and its line number; lexdata and
\* lexpos are replaced by the next input() before anything reads them, so
\* they are forgotten here.
Return ==
    /\ pc \in {"returned", "raised"}
    /\ pc' = "idle"
    /\ lexer' = input(lexer, <<>>)
    /\ tok' = NoTok
    /\ toks' = <<>>
    /\ errors' = <<>>
    /\ symstack' = <<>>
    /\ result' = NoResult
    /\ UNCHANGED <<cfg, calls>>

Next ==
    \/ \E text \in Given : ParseCall(text)
    \/ \E text \in Given : InputCall(text)
    \/ Ignore
    \/ KEYWORD
    \/ PARAM
    \/ CONTINUE
    \/ NEWLINE
    \/ LASTTOKENONLINE
    \/ COMMENT
    \/ NEWLINEALONE
    \/ FLOAT_CONST
    \/ INT_CONST_HEX
    \/ BAD_CONST_OCT
    \/ INT_CONST_OCT
    \/ INT_CONST_DEC
    \/ ID
    \/ PERIOD
    \/ EQUALS
    \/ COMMA
    \/ KeywordError
    \/ Error
    \/ Eof
    \/ KeywordList
    \/ KeywordFirst
    \/ SingleKeyword
    \/ ParamList
    \/ ParamFirst
    \/ SingleParam
    \/ DataLinesList
    \/ DataLines
    \/ DataLine
    \/ DataList
    \/ DataFirst
    \/ SingleData
    \/ Shift
    \/ Accept
    \/ SyntaxError
    \/ Return

Spec == Init /\ [][Next]_vars

TypeOK ==
    /\ cfg \in Configs
    /\ pc \in {"idle", "lex", "yacc", "returned", "raised"}
    /\ calls \in 0..MaxCalls

----------------------------------------------------------------------------
(* Vocabulary of the properties.                                           *)

Ended == pc \in {"returned", "raised"}

\* Kind and raw text of each token of a sequence.
TV(ts) == [k \in 1..Len(ts) |-> <<ts[k].type, ts[k].value>>]

\* The call with the same client on a new instance.
RunFresh(c, text) == IF c.client = "parser" THEN FreshParse(c, text) ELSE FreshTokens(c, text)

\* Same tokens, same outcome, same scanning mode left behind.
SameRun(o) ==
    /\ TV(o.toks) = TV(toks)
    /\ o.result.status = result.status
    /\ o.result.doc = result.doc
    /\ o.lexer.lexstate = lexer.lexstate
    /\ o.lexer.lexstatestack = lexer.lexstatestack

\* Number of directive headers (marker followed by a letter) in d from i
\* on, not counting what stands in a comment (a double marker up to the
\* line break that ends its line).
RECURSIVE HeaderCount(_, _)
HeaderCount(d, i) ==
    IF i >= Len(d) THEN 0
    ELSE IF At(d, i) = "*" /\ At(d, i + 1) \in Letter THEN 1 + HeaderCount(d, i + 2)
    ELSE IF At(d, i) = "*" /\ At(d, i + 1) = "*" /\ At(d, i + 2 + RunDot(d, i + 2)) = NL
         THEN HeaderCount(d, i + 3 + RunDot(d, i + 2))
    ELSE HeaderCount(d, i + 1)

\* The line that starts at i is blank, or is a comment line.
BlankLineAt(d, i) == Run(d, i, {" ", "\t"}) = RunDot(d, i)

CommentLineAt(d, i) ==
    LET b == Run(d, i, {" ", "\t"}) IN At(d, i + b) = "*" /\ At(d, i + b + 1) = "*"

\* From i on, d holds only blank lines and comment lines.
RECURSIVE OnlyBlankComment(_, _)
OnlyBlankComment(d, i) ==
    IF i >= Len(d) THEN TRUE
    ELSE /\ BlankLineAt(d, i) \/ CommentLineAt(d, i)
         /\ OnlyBlankComment(d, i + RunDot(d, i) + 1)

\* Start positions of the lines of d.
LineStarts(d) == {0} \cup {i \in 1..Len(d) : d[i] = NL}

\* The last line of d is a comment line with no line break after it.
OpenComment(d) ==
    \E i \in LineStarts(d) : i < Len(d) /\ CommentLineAt(d, i) /\ i + RunDot(d, i) = Len(d)

\* d without the line that starts at i (and without its line break).
DeleteLine(d, i) == Slice(d, 0, i) \o Slice(d, i + RunDot(d, i) + 1, Len(d))

\* d with a line break put in after position p.
InsertNL(d, p) == Slice(d, 0, p + 1) \o <<NL>> \o Slice(d, p + 1, Len(d))

----------------------------------------------------------------------------
(* C1.  Parsing the buffer of test_1 (a header `*elset,elset=foo` and the  *)
(* data lines `1,` `2,` `3,`, each ending in a comma) returns a Document   *)
(* of one keyword elset with the parameter elset=foo and three data lines  *)
(* of one field each.                                                      *)

C1_Document ==
    <<Keyword(<<"e","l","s","e","t">>,
              <<Parameter(<<"e","l","s","e","t">>, <<"f","o","o">>)>>,
              << << <<"1">> >>, << <<"2">> >>, << <<"3">> >> >>)>>

C1_TrailingCommaData ==
    (cfg.client = "parser" /\ calls = 1 /\ Ended /\ lexer.lexdata \in {test_1_buf, ScenarioA})
        => result = Ok(C1_Document)

(* C2.  Parsing the buffer of test_2 (two `*solid section` headers, each   *)
(* with elset and material parameters and one data line `1.0`) returns a   *)
(* Document of two keywords named `solid section`, each with its two       *)
(* parameters in order and one data line of one field.                     *)

C2_Keyword(elset) ==
    Keyword(<<"s","o","l","i","d"," ","s","e","c","t","i","o","n">>,
            <<Parameter(<<"e","l","s","e","t">>, elset),
              Parameter(<<"m","a","t","e","r","i","a","l">>, <<"T","9","5">>)>>,
            << << <<"1",".","0">> >> >>)

C2_SpaceInKeywordName ==
    (cfg.client = "parser" /\ calls = 1 /\ Ended /\ lexer.lexdata \in {test_2_buf, ScenarioB})
        => result = Ok(<<C2_Keyword(<<"b","o","x">>), C2_Keyword(<<"p","i","n">>)>>)

(* C3.  Parsing the buffer of test_3 (`*include,input=materials.inp`, a    *)
(* comment line, `*end`) returns a Document of two keywords: include with  *)
(* exactly one parameter and no data, then end with no parameters and no   *)
(* data.                                                                   *)

C3_PeriodInParamValue ==
    (cfg.client = "parser" /\ calls = 1 /\ Ended /\ lexer.lexdata \in {test_3_buf, ScenarioC})
        => /\ result.status = "ok"
           /\ Len(result.doc) = 2
           /\ result.doc[1].keyword = <<"i","n","c","l","u","d","e">>
           /\ Len(result.doc[1].params) = 1
           /\ result.doc[1].data = None
           /\ result.doc[2] = Keyword(<<"e","n","d">>, None, None)

(* C4.  No scanner state survives from one parse call to the next: every   *)
(* call starts scanning in the initial mode with an empty mode stack, and  *)
(* its outcome is the outcome of the same call on a new parser.            *)

C4_NoStateAcrossCalls ==
    /\ (cfg.client = "parser" /\ pc = "lex" /\ lexer.lexpos = 0 /\ toks = <<>>)
          => (lexer.lexstate = "INITIAL" /\ lexer.lexstatestack = <<>>)
    /\ (cfg.client = "parser" /\ Ended)
          => LET o == FreshParse(cfg, lexer.lexdata)
             IN  result = o.result /\ toks = o.toks

(* C5.  A buffer with no directive header at all (empty, or only blank    *)
(* and comment lines) parses to an empty Document without a syntax error. *)
(* Stated for a new parser and comment lines that end in a line break.    *)

C5_EmptyDocumentAccepted ==
    (cfg.client = "parser" /\ calls = 1 /\ Ended /\ OnlyBlankComment(lexer.lexdata, 0)
        /\ ~OpenComment(lexer.lexdata))
        => result = Ok(<<>>)

(* C5 as amended.  A buffer with no directive header at all is rejected:   *)
(* parse returns no Document and ends with a reported error, which on a    *)
(* new parser, with every comment line ended by a line break, is the       *)
(* syntax error 'At end of input'.                                         *)

C5_EmptyDocumentRejected ==
    (cfg.client = "parser" /\ Ended /\ OnlyBlankComment(lexer.lexdata, 0))
        => /\ result.status = "ParseError"
           /\ result.doc = <<>>
           /\ (calls = 1 /\ ~OpenComment(lexer.lexdata)) => result.err.kind = "At end of input"

C5_Witness ==
    /\ cfg.client = "parser" /\ pc = "raised"
    /\ OnlyBlankComment(lexer.lexdata, 0)
    /\ \E i \in LineStarts(lexer.lexdata) : CommentLineAt(lexer.lexdata, i)
    /\ \E i \in LineStarts(lexer.lexdata) : i < Len(lexer.lexdata) /\ BlankLineAt(lexer.lexdata, i)
    /\ result.err.kind = "At end of input"

(* C6.  For all inputs the Document returned by parse has as many          *)
(* keywords as the buffer has directive headers outside comments.  Stated  *)
(* for a new parser and comment lines that end in a line break.            *)

C7_CommentLineIsInvisible ==
    (calls = 1 /\ Ended)
        => \A i \in LineStarts(lexer.lexdata) :
              (At(lexer.lexdata, i) = "*" /\ At(lexer.lexdata, i + 1) = "*")
                  => SameRun(RunFresh(cfg, DeleteLine(lexer.lexdata, i)))

(* C8.  A parameter list split by a line break right after a comma parses  *)
(* as the list written on one line: putting a line break after any comma   *)
(* that is followed by a parameter on the same line gives the same tokens  *)
(* (one COMMA, no LASTTOKENONLINE), the same scanning mode and the same    *)
(* outcome.                                                                *)

\* Token k is a comma with a parameter after it on the same line.
CommaBeforeParam(k) ==
    /\ k < Len(toks)
    /\ toks[k].type = "COMMA"
    /\ toks[k + 1].type = "PARAM"
    /\ At(lexer.lexdata, toks[k].lexpos + 1) # NL

C8_ContinuationParsesAlike ==
    (calls = 1 /\ Ended)
        => \A k \in 1..Len(toks) :
              CommaBeforeParam(k)
                  => SameRun(RunFresh(cfg, InsertNL(lexer.lexdata, toks[k].lexpos)))

C8_Witness ==
    /\ cfg.client = "parser" /\ calls = 1 /\ pc = "returned"
    /\ \E k \in 1..Len(toks) : CommaBeforeParam(k) /\ k > 2
    /\ Len(result.doc[1].params) = 2

(* C9.  Every integer literal form the lexer recognizes (the digit 0, an   *)
(* octal such as 07, a hexadecimal such as 0x1F) is accepted by the        *)
(* grammar as a data field and as a parameter value, and keeps its text.   *)

IntForms == {<<"0">>, <<"0","7">>, <<"0","x","1","F">>}

AsData(lit) == <<"*","a",NL>> \o lit \o <<NL>>

AsParamValue(lit) == <<"*","a",",","b","=">> \o lit \o <<NL>>

C9_IntegerFormsAccepted ==
    (cfg.client = "parser" /\ calls = 1 /\ Ended)
        => \A lit \in IntForms :
              /\ lexer.lexdata = AsData(lit)
                    => result = Ok(<<Keyword(<<"a">>, None, << <<lit>> >>)>>)
              /\ lexer.lexdata = AsParamValue(lit)
                    => result = Ok(<<Keyword(<<"a">>, <<Parameter(<<"b">>, lit)>>, None)>>)

(* C10.  A malformed octal literal in a data line gives exactly one        *)
(* invalid-octal diagnostic, and scanning goes on to the end of the input: *)
(* every token that follows the literal in the buffer is still produced.   *)

\* Buffers `*a` + line break + a data line that starts with a malformed octal.
C10_Buffers == {d \in Literals : Len(d) > 3 /\ SubSeq(d, 1, 3) = <<"*","a",NL>>
                                  /\ bad_octal_constant(d, 3) > 0}

\* The lexer in a data line of the first keyword, at position i of d.
InDataLine(d, i) ==
    [lexdata |-> d, lexpos |-> i, lexstate |-> "datalinestate",
     lexstatestack |-> <<"INITIAL">>, lineno |-> 2]

C10_ScanContinuesPastBadOctal ==
    (cfg.client = "lexer" /\ calls = 1 /\ pc = "returned" /\ lexer.lexdata \in C10_Buffers)
        => LET d == lexer.lexdata
               e == 3 + Run(d, 3, Digit)
               after == SelectSeq(toks, LAMBDA t : t.lexpos >= 3)
           IN  /\ Len(errors) = 1
               /\ errors[1].kind = "Invalid octal constant"
               /\ errors[1].line = 2
               /\ TV(after) = TV(token_loop(InDataLine(d, e), cfg, <<>>, <<>>).toks)

(* C11.  A syntax error ends the parse attempt with a ParseError and no    *)
(* Document, not even a partial one; the error names the offending token   *)
(* by its text as it stands in the buffer and by the line of the buffer    *)
(* it starts on, or says that the input ended.                             *)

\* 1-based number of the line of d that position p lies on.
LineOf(d, p) == 1 + CountNL(Slice(d, 0, p))

\* The text of token t is the text of d at the token's start offset (for a
\* directive header, after the marker).
TextInBuffer(d, t) ==
    LET from == IF t.type = "KEYWORD" THEN t.lexpos + 1 ELSE t.lexpos
    IN  t.value # <<>> /\ Slice(d, from, from + Len(t.value)) = t.value

SyntaxErrorRaised ==
    /\ cfg.client = "parser" /\ pc = "raised"
    /\ result.err.kind \in {"before", "At end of input"}

C11_SyntaxErrorNamesToken ==
    SyntaxErrorRaised
        => /\ result.status = "ParseError"
           /\ result.doc = <<>>
           /\ LRAction(symstack, tok.type).act = "error"
           /\ (tok.type = "$end") => result.err.kind = "At end of input"
           /\ (tok.type # "$end")
                 => /\ result.err.kind = "before"
                    /\ result.err.arg = tok.value
                    /\ TextInBuffer(lexer.lexdata, tok)
                    /\ result.err.line = LineOf(lexer.lexdata, tok.lexpos)

(* C12.  Order and multiplicity are preserved at every level: read from    *)
(* left to right, the Document returned by parse lists exactly the tokens  *)
(* the scanner produced, in their order: each directive header as a        *)
(* keyword, each parameter name and value under its keyword (a name        *)
(* written twice appears twice), each data field in its data line, and     *)
(* one data line per end-of-record token.                                  *)

ParamEvents(q) ==
    <<<<"name", q.name>>>> \o (IF q.value = None THEN <<>> ELSE <<<<"value", q.value>>>>)

RECURSIVE ParamListEvents(_)
ParamListEvents(ps) ==
    IF ps = <<>> THEN <<>> ELSE ParamEvents(Head(ps)) \o ParamListEvents(Tail(ps))

LineEvents(l) == [k \in 1..Len(l) |-> <<"field", l[k]>>] \o <<<<"endline", <<>>>>>>

RECURSIVE DataLinesEvents(_)
DataLinesEvents(ls) ==
    IF ls = <<>> THEN <<>> ELSE LineEvents(Head(ls)) \o DataLinesEvents(Tail(ls))

KeywordEvents(kw) ==
    <<<<"keyword", kw.keyword>>>> \o ParamListEvents(kw.params) \o DataLinesEvents(kw.data)

\* The Document read from left to right.
RECURSIVE DocEvents(_)
DocEvents(doc) ==
    IF doc = <<>> THEN <<>> ELSE KeywordEvents(Head(doc)) \o DocEvents(Tail(doc))

\* The token stream read the same way; separators (comma, equals sign)
\* carry no content.
RECURSIVE TokEvents(_, _)
TokEvents(ts, k) ==
    IF k > Len(ts) THEN <<>>
    ELSE LET t == ts[k]
             afterEq == k > 1 /\ ts[k - 1].type = "EQUALS"
             e == CASE t.type = "KEYWORD" -> <<<<"keyword", t.value>>>>
                    [] t.type \in {"COMMA", "EQUALS"} -> <<>>
                    [] t.type = "LASTTOKENONLINE" -> <<<<"endline", <<>>>>>>
                    [] afterEq -> <<<<"value", t.value>>>>
                    [] t.type = "PARAM" -> <<<<"name", t.value>>>>
                    [] OTHER -> <<<<"field", t.value>>>>
         IN  e \o TokEvents(ts, k + 1)

C12_OrderAndMultiplicity ==
    (cfg.client = "parser" /\ pc = "returned")
        => (result.status = "ok" /\ DocEvents(result.doc) = TokEvents(toks, 1))

C12_Witness ==
    /\ cfg.client = "parser" /\ pc = "returned"
    /\ Len(result.doc) = 2
    /\ Len(result.doc[1].params) = 2
    /\ result.doc[1].params[1].name = result.doc[1].params[2].name
    /\ result.doc[1].params[1].value # result.doc[1].params[2].value
    /\ Len(result.doc[1].data) = 2
    /\ Len(result.doc[1].data[1]) = 2

(* C13.  Round trip: every Keyword of a Document returned by parse, written *)
(* out as the marker and its name, its parameters in order (`,name=value`  *)
(* or `,name`), a line break, and one line per data line with the fields   *)
(* separated by commas and ended by a line break, parses on a new parser   *)
(* to a Document of exactly that Keyword: same name, same parameters, same *)
(* data fields per line.                                                   *)

EmitParam(q) == <<",">> \o q.name \o (IF q.value = None THEN <<>> ELSE <<"=">> \o q.value)

RECURSIVE EmitParams(_)
EmitParams(ps) == IF ps = <<>> THEN <<>> ELSE EmitParam(Head(ps)) \o EmitParams(Tail(ps))

\* ','.join(fields) + line break
RECURSIVE EmitLine(_)
EmitLine(l) ==
    IF l = <<>> THEN <<NL>>
    ELSE IF Len(l) = 1 THEN l[1] \o <<NL>>
    ELSE l[1] \o <<",">> \o EmitLine(Tail(l))

RECURSIVE EmitLines(_)
EmitLines(ls) == IF ls = <<>> THEN <<>> ELSE EmitLine(Head(ls)) \o EmitLines(Tail(ls))

Emit(kw) == <<"*">> \o kw.keyword \o EmitParams(kw.params) \o <<NL>> \o EmitLines(kw.data)

C13_RoundTrip ==
    (cfg.client = "parser" /\ pc = "returned")
        => \A k \in 1..Len(result.doc) :
              FreshParse(cfg, Emit(result.doc[k])).result = Ok(<<result.doc[k]>>)

C13_Witness ==
    /\ cfg.client = "parser" /\ pc = "returned"
    /\ \E k \in 1..Len(result.doc) :
          LET kw == result.doc[k]
          IN  /\ \E i \in 1..Len(kw.params) : kw.params[i].value # None
              /\ \E i \in 1..Len(kw.params) : kw.params[i].value = None
              /\ Len(kw.data) = 2
              /\ Len(kw.data[1]) = 2
              /\ Emit(kw) # lexer.lexdata
              /\ FreshParse(cfg, Emit(kw)).result = Ok(<<kw>>)

(* C14.  The saved mode context does not grow with the number of directive *)
(* headers scanned: whenever the scanner is back in data mode after a      *)
(* header line, the mode stack is what it was after the first directive,   *)
(* and inside a header it is at most one entry deeper.  Stated for the     *)
(* first call on a new instance.                                           *)

C14_ModeContextBounded ==
    (calls = 1 /\ pc \in {"lex", "yacc"})
        => /\ lexer.lexstate = "datalinestate" => lexer.lexstatestack = <<"INITIAL">>
           /\ lexer.lexstate = "keywordstate" => Len(lexer.lexstatestack) <= 2
           /\ lexer.lexstate = "INITIAL" => lexer.lexstatestack = <<>>

(* C15.  After a lexical error is reported to a sink that returns, the     *)
(* scanner resumes at the character right after the offending construct:   *)
(* the step that reports the error moves the scan position by the length   *)
(* of the malformed literal, or by one for an illegal character, and no    *)
(* further.                                                                *)

\* Length of the construct the error reported at the current position is about.
OffendingLen(lx) ==
    IF Selected(lx) = "t_BAD_CONST_OCT" THEN bad_octal_constant(lx.lexdata, lx.lexpos) ELSE 1

C15_ResumesRightAfterError ==
    [][(cfg.client = "lexer" /\ pc = "lex" /\ Len(errors') = Len(errors) + 1)
          => lexer'.lexpos = lexer.lexpos + OffendingLen(lexer)]_vars

(* C16.  The tokenizer always terminates at the end of the input: with an  *)
(* error sink that returns, every scanning step (token, ignored character, *)
(* comment, discarded line break, reported error) moves the scan position  *)
(* forward, and no token() call ends the scan by an exception, so the      *)
(* calls reach the end-of-input sentinel whatever the buffer contains.     *)

C16_ReachesEndOfInput ==
    /\ [][(cfg.client = "lexer" /\ pc = "lex") => lexer'.lexpos > lexer.lexpos]_vars
    /\ [](cfg.client = "lexer" => pc # "raised")

(* C17.  Line-break tokens follow the mode.  The line break that ends a    *)
(* header line emits no token and switches the scanner to data mode; no    *)
(* end-of-record token comes from a line break before the first header,    *)
(* inside a header or at the end of a comment line; and in the data region *)
(* every run of line breaks emits exactly one end-of-record token: each    *)
(* line break there lies in exactly one such token, and the token reaches  *)
(* to the end of the run.  Stated for a complete scan by a new lexer.      *)

\* Position of the first line break from i on that does not directly
\* follow a comma (Len(d) when there is none): where the header that
\* starts before i ends.
RECURSIVE HeaderEnd(_, _)
HeaderEnd(d, i) ==
    IF i >= Len(d) THEN Len(d)
    ELSE IF At(d, i) = NL /\ At(d, i - 1) # "," THEN i
    ELSE HeaderEnd(d, i + 1)

\* Position p lies in the header line of some directive header token.
InHeader(d, ts, p) ==
    \E k \in 1..Len(ts) :
        ts[k].type = "KEYWORD" /\ ts[k].lexpos <= p /\ p <= HeaderEnd(d, ts[k].lexpos)

\* Position p lies before the first directive header.
BeforeFirstHeader(ts, p) ==
    \A k \in 1..Len(ts) : ts[k].type = "KEYWORD" => p < ts[k].lexpos

\* The line break at p ends a comment line.
EndsCommentLine(d, p) ==
    \E i \in LineStarts(d) : i <= p /\ i + RunDot(d, i) = p /\ CommentLineAt(d, i)

\* The line break at p belongs to the data region.
DataRegionNL(d, ts, p) ==
    /\ At(d, p) = NL
    /\ ~BeforeFirstHeader(ts, p)
    /\ ~InHeader(d, ts, p)
    /\ ~EndsCommentLine(d, p)

\* The end-of-record tokens whose text covers position p.
Covering(ts, p) ==
    {k \in 1..Len(ts) : /\ ts[k].type = "LASTTOKENONLINE"
                        /\ ts[k].lexpos <= p
                        /\ p < ts[k].lexpos + Len(ts[k].value)}

C17_LineBreakTokens ==
    /\ [][(pc = "lex" /\ Selected(lexer) = "t_keywordstate_NEWLINE")
             => (toks' = toks /\ lexer'.lexstate = "datalinestate")]_vars
    /\ []((cfg.client = "lexer" /\ calls = 1 /\ pc = "returned")
             => LET d == lexer.lexdata
                IN  /\ \A p \in 0..(Len(d) - 1) :
                          /\ DataRegionNL(d, toks, p) => Cardinality(Covering(toks, p)) = 1
                          /\ (At(d, p) = NL /\ ~DataRegionNL(d, toks, p)) => Covering(toks, p) = {}
                    /\ \A k \in 1..Len(toks) :
                          toks[k].type = "LASTTOKENONLINE"
                              => /\ \A j \in 1..Len(toks[k].value) : toks[k].value[j] = NL
                                 /\ At(d, toks[k].lexpos + Len(toks[k].value)) # NL)

(* C18.  The line number attached to every token and to every diagnostic   *)
(* is 1 plus the number of line breaks that stand in the buffer before the *)
(* start of the token (for a diagnostic, before the offending text), also  *)
(* after comment lines and continued parameter lists.  Stated for the      *)
(* first call on a new instance.                                           *)

C18_LineNumbers ==
    /\ [](calls = 1 => \A k \in 1..Len(toks) :
                          toks[k].lineno = LineOf(lexer.lexdata, toks[k].lexpos))
    /\ [][(calls = 1 /\ pc = "lex" /\ Len(errors') = Len(errors) + 1)
             => errors'[Len(errors')].line = LineOf(lexer.lexdata, lexer.lexpos)]_vars

(* C19.  The column reported with a diagnostic is the 1-based distance of  *)
(* the offending text's start from the start of its line: 1 for text at    *)
(* the first character of a line, k+1 for text k characters into the line, *)
(* on the first line of the buffer and on every later line alike.          *)

\* Start position of the line that position p lies on.
RECURSIVE LineStartOf(_, _)
LineStartOf(d, p) == IF p = 0 \/ At(d, p - 1) = NL THEN p ELSE LineStartOf(d, p - 1)

C19_ColumnOfDiagnostic ==
    [][(pc = "lex" /\ Len(errors') = Len(errors) + 1)
          => errors'[Len(errors')].column
                 = (lexer.lexpos - LineStartOf(lexer.lexdata, lexer.lexpos)) + 1]_vars

====
